---------------------------- MODULE Spec2Model ----------------------------
(***************************************************************************)
(* A model of the Humminbird waypoint/route/track codec, humminbird.cc.    *)
(*                                                                         *)
(* Four specifications share the module:                                   *)
(*   SpecRead   the record dispatcher humminbird_read with the waypoint,   *)
(*              route and track decoders it calls;                         *)
(*   SpecWrite  HumminbirdFormat::write, the two-phase waypoint and route  *)
(*              encoder;                                                   *)
(*   SpecIcon   HumminbirdFormat::write of waypoints that have icon        *)
(*              descriptions;                                              *)
(*   SpecTrk    HumminbirdHTFormat's track encoder and the decoding of the *)
(*              records it writes, and of arbitrary track records.         *)
(*                                                                         *)
(* A Waypoint's latitude and longitude are represented by the integer      *)
(* (east, north) pair they are computed from or converted to; a pointer to *)
(* a Waypoint is represented by the field addr, which every `new Waypoint` *)
(* sets to a fresh value.                                                  *)
(***************************************************************************)
EXTENDS Integers, Sequences, FiniteSets, TLC

(***************************************************************************)
(* Program constants.                                                      *)
(***************************************************************************)
TRK_NAME_LEN == 20
MAX_RTE_POINTS == 50

TRK_MAGIC == 16973824    \* 0x01030000
TRK_MAGIC2 == 16916336   \* 0x01021F70
WPT_MAGIC == 33685540    \* 0x02020024
WPT_MAGIC2 == 33751076   \* 0x02030024
RTE_MAGIC == 50528392    \* 0x03030088

\* sizeof(uint32_t), sizeof(humminbird_trk_header_t), sizeof(humminbird_trk_point_t),
\* sizeof(humminbird_trk_header_old_t), sizeof(humminbird_trk_point_old_t)
SizeofU32 == 4
SizeofTrkHeader == 64
SizeofTrkPoint == 6
SizeofTrkHeaderOld == 28
SizeofTrkPointOld == 4

(***************************************************************************)
(* Bounds of the model.                                                    *)
(***************************************************************************)
\* The number of points a track record holds.  The source's record lengths,
\* 131080 and 8048 bytes, hold 21835 and 1999 points; the model's record
\* lengths below are those of records that hold TrkCapacity points.
TrkCapacity == 3
\* Records read by one run of humminbird_read.
MaxRecords == 3
\* Waypoints of the waypoint list and routes of the route list that one run
\* of HumminbirdFormat::write is given.
MaxWpts == 2
MaxRoutes == 2
\* Words past a route record's points array that hold arbitrary numbers (the
\* words after them hold 0).
MaxGarbage == 1

(***************************************************************************)
(* Integer widths and byte order.  A 16-bit field in a record is a pair of *)
(* bytes and a 32-bit field four bytes, most significant first.            *)
(***************************************************************************)
Min(a, b) == IF a < b THEN a ELSE b
Max(a, b) == IF a > b THEN a ELSE b

\* the conversion of an integer to int8_t, int16_t, uint16_t
S8(u) == LET m == u % 256 IN IF m >= 128 THEN m - 256 ELSE m
S16(u) == LET m == u % 65536 IN IF m >= 32768 THEN m - 65536 ELSE m
U16(v) == v % 65536

be_read16_bad(p) == p[2] * 256 + p[1]
be_read16(p) == p[1] * 256 + p[2]

\* be_read32 returns a signed int: the four bytes as a two's complement number
be_read32(p) == ((S8(p[1]) * 256 + p[2]) * 256 + p[3]) * 256 + p[4]

be_write16(v) == LET u == v % 65536 IN <<u \div 256, u % 256>>

be_write32(v) ==
  <<(v \div 16777216) % 256, (v \div 65536) % 256, (v \div 256) % 256, v % 256>>

Range(s) == {s[i] : i \in DOMAIN s}

VARIABLES
  \* the reader
  rd_pc,                  \* "reading", "done" (humminbird_read returned), "fatal", "crash"
  waypt_list,             \* the output waypoints, in waypt_add order
  wpt_num_to_wpt_hash,    \* Humminbird number -> Waypoint
  route_list,             \* the output routes, in route_add_head order
  track_list,             \* the output tracks, in track_add_head order
  warnings,               \* calls of warning() by the reader
  nread,                  \* signatures read by gbfgetuint32
  cur                     \* the signature read last, the codec called for it, its record

rdvars == <<rd_pc, waypt_list, wpt_num_to_wpt_hash, route_list, track_list,
            warnings, nread, cur>>

VARIABLES
  \* HumminbirdFormat::write
  wr_pc,                  \* the callback write() makes next: <<phase, route, point>>
  in_wpts,                \* the waypoint list, as far as waypt_disp_all has gone
  in_routes,              \* the route list
  fout,                   \* the records written, in order
  wpt_id_to_wpt_num_hash, \* waypoint id -> number
  waypoint_num,
  rte_num_,
  humrte,                 \* the route record being built, or Null
  wr_warnings             \* calls of warning() by the writer

wrvars == <<wr_pc, in_wpts, in_routes, fout, wpt_id_to_wpt_num_hash, waypoint_num,
            rte_num_, humrte, wr_warnings>>

VARIABLES
  \* HumminbirdHTFormat::write
  tk_pc,        \* "start", "cb" (a track is open), "written", "read", "crash"
  in_trk,       \* the waypoints of the track, as far as track_disp_all has gone
  trk_head,     \* the header being built, or Null
  trk_points,   \* the point array of the track being built
  last_east,
  last_north,
  last_time,
  tk_overrun,   \* humminbird_track_cb has stored past the end of trk_points
  tk_fout       \* the track records written

tkvars == <<tk_pc, in_trk, trk_head, trk_points, last_east, last_north, last_time,
            tk_overrun, tk_fout>>

vars == <<rdvars, wrvars, tkvars>>


(***************************************************************************)
(* humminbird_read_wpt                                                     *)
(***************************************************************************)
NoDepth == -1
NoTime == -1

\* the Waypoint built from record w; k is the ordinal of the record
WptOfRecord(w, k) ==
  [addr |-> <<k, 0>>,
   shortname |-> w.name,
   time |-> be_read32(w.time),
   east |-> be_read32(w.east),
   north |-> be_read32(w.north),
   depth |-> IF be_read16(w.depth) # 0 THEN be_read16(w.depth) ELSE NoDepth]

\* the statuses of the switch that call waypt_add
WptKept_bad(status) == status \in {0, 1, 2, 3}
WptKept(status) == status \in {1, 2, 3}

\* wpt_num_to_wpt_hash[n] = w
HashPut_bad(h, n, w) == IF n \in DOMAIN h THEN h ELSE [m \in DOMAIN h \cup {n} |-> IF m = n THEN w ELSE h[m]]
HashPut(h, n, w) == [m \in DOMAIN h \cup {n} |-> IF m = n THEN w ELSE h[m]]

\* the waypoint list and the hash after the record w, the k-th of the file
humminbird_read_wpt(w, k, waypts, hash) ==
  IF WptKept(w.status)
  THEN [waypts |-> Append(waypts, WptOfRecord(w, k)),
        hash |-> HashPut(hash, be_read16(w.num), WptOfRecord(w, k))]
  ELSE [waypts |-> waypts, hash |-> hash]

(***************************************************************************)
(* humminbird_read_route                                                   *)
(***************************************************************************)
\* hrte.points[i] as the loop reads it: a slot of the array or, past the
\* array's end, whatever the memory behind the record holds
RteSlot(hrte, garbage, i) ==
  IF i < MAX_RTE_POINTS THEN be_read16(hrte.points[i + 1])
  ELSE IF i - MAX_RTE_POINTS < Len(garbage) THEN garbage[i - MAX_RTE_POINTS + 1]
  ELSE 0

\* new Waypoint(*wpt), made by iteration i of the k-th record
CopyWpt_bad(wpt, k, i) == [wpt EXCEPT !.addr = <<k, i + 1>>, !.depth = NoDepth]
CopyWpt(wpt, k, i) == [wpt EXCEPT !.addr = <<k, i + 1>>]

\* the loop `for (i = 0; i < n; i++)`: the slots whose number the hash
\* holds, in the order of the array, each as a copy of the hash's waypoint
RteLoop(hrte, hash, garbage, k, n) ==
  LET slots == [i \in 1..n |-> <<i - 1, RteSlot(hrte, garbage, i - 1)>>]
      found == SelectSeq(slots, LAMBDA s : s[2] \in DOMAIN hash)
  IN  [j \in 1..Len(found) |-> CopyWpt(hash[found[j][2]], k, found[j][1])]

\* the number of warning() calls of the decoder: it has none
RteWarnings_bad(hrte, hash) ==
  Cardinality({i \in 0..(Min(S8(hrte.count), MAX_RTE_POINTS) - 1) :
                 be_read16(hrte.points[i + 1]) \notin DOMAIN hash})
RteWarnings(hrte, hash) == 0

\* the route list after the record hrte, the k-th of the file
humminbird_read_route(hrte, k, routes, hash, garbage) ==
  LET count == S8(hrte.count)
  IN  IF count > 0 /\ RteLoop(hrte, hash, garbage, k, count) # <<>>
      THEN Append(routes, [rte_name |-> hrte.name,
                           wpts |-> RteLoop(hrte, hash, garbage, k, count)])
      ELSE routes

(***************************************************************************)
(* humminbird_read_track, humminbird_read_track_old                        *)
(***************************************************************************)
\* The record length of the new format (131080 in the source) and of the
\* old one (file_len, 8048 in the source), for TrkCapacity points.
TRK_FILE_LEN == SizeofU32 + SizeofTrkHeader + SizeofTrkPoint * TrkCapacity + 2
file_len == SizeofTrkHeaderOld + SizeofU32 + TRK_NAME_LEN + SizeofTrkPointOld * TrkCapacity

max_points == (TRK_FILE_LEN - SizeofU32 - SizeofTrkHeader) \div SizeofTrkPoint
max_points_old ==
  (file_len - (SizeofTrkHeaderOld + SizeofU32 + TRK_NAME_LEN)) \div SizeofTrkPointOld

ZeroPoint == [deltaeast |-> <<0, 0>>, deltanorth |-> <<0, 0>>, depth |-> <<0, 0>>]

\* th.num_points after the decrement of a maximal record's count
TrkCount_bad(th) == be_read16(th.num_points)
TrkCount(th) ==
  IF be_read16(th.num_points) = max_points + 1
  THEN be_read16(th.num_points) - 1
  ELSE be_read16(th.num_points)

\* gbfread(points, size, members, fin) = 0, the caller's fatal case, with
\* avail whole members left in the file.  A request for no members returns
\* 0 or not: zero_ok.  A request for (size_t)-1 members is the caller's
\* num_points = 0.
gbfread_fails(avail, members, zero_ok) ==
  IF members = 0 THEN ~zero_ok ELSE avail = 0

\* new humminbird_trk_point_t[n]() filled by gbfread: the first n-1 entries
\* are the file's, as far as it has them, the others are zero
TrkPointsArray(body, n) ==
  [i \in 1..n |-> IF i <= Min(Len(body), n - 1) THEN body[i] ELSE ZeroPoint]

\* the freak-value filter on one axis: <<delta of point i, bytes of point i+1>>
FreakFilter_bad(d, next) == <<d, next>>
FreakFilter(d, next) ==
  IF d = 32767 /\ S16(be_read16(next)) = -32768
  THEN <<-1, <<0, 0>>>>
  ELSE <<d, next>>

\* the number of points the loop adds to the n the header counts
TrkLoopEnd_bad(n) == n - 2
TrkLoopEnd(n) == n - 1

RECURSIVE TrkLoop(_, _, _, _, _, _, _)
\* the loop from iteration i on: points is the array, ae and an the
\* accumulated coordinates, acc the waypoints added so far
TrkLoop(points, i, n, time, ae, an, acc) ==
  IF i >= TrkLoopEnd(n) THEN acc
  ELSE LET fe == FreakFilter(S16(be_read16(points[i + 1].deltaeast)),
                             points[i + 2].deltaeast)
           fn == FreakFilter(S16(be_read16(points[i + 1].deltanorth)),
                             points[i + 2].deltanorth)
           depth == be_read16(points[i + 1].depth)
           pts == [points EXCEPT ![i + 2].deltaeast = fe[2],
                                 ![i + 2].deltanorth = fn[2]]
           wpt == [east |-> ae + fe[1],
                   north |-> an + fn[1],
                   depth |-> IF depth # 0 THEN depth ELSE NoDepth,
                   time |-> IF i = n - 2 /\ time # 0 THEN time ELSE NoTime]
       IN  TrkLoop(pts, i + 1, n, time, ae + fe[1], an + fn[1], Append(acc, wpt))

FirstWpt(th) ==
  [east |-> be_read32(th.start_east), north |-> be_read32(th.start_north),
   depth |-> NoDepth, time |-> NoTime]

\* The outcome of humminbird_read_track on the header th followed by the
\* points body.  With num_points = 0 the read of (size_t)-1 points into an
\* empty array fails at the end of the file, and otherwise overruns the
\* array: overrun is what the overrun does, "crash" or "ok".
humminbird_read_track(th, body, zero_ok, overrun) ==
  LET n == TrkCount(th)
  IN  IF n > max_points THEN [outcome |-> "fatal", trk |-> <<>>]
      ELSE IF gbfread_fails(Len(body), n - 1, zero_ok)
      THEN [outcome |-> "fatal", trk |-> <<>>]
      ELSE IF n = 0 /\ overrun = "crash" THEN [outcome |-> "crash", trk |-> <<>>]
      ELSE [outcome |-> "ok",
            trk |-> <<[rte_name |-> th.name,
                       rte_num |-> be_read16(th.trk_num),
                       wpts |-> TrkLoop(TrkPointsArray(body, n), 0, n,
                                        be_read32(th.time),
                                        be_read32(th.start_east),
                                        be_read32(th.start_north),
                                        <<FirstWpt(th)>>)]>>]

RECURSIVE TrkLoopOld(_, _, _, _, _, _, _)
TrkLoopOld(points, i, n, time, ae, an, acc) ==
  IF i >= n - 1 THEN acc
  ELSE LET de == S16(be_read16(points[i + 1].deltaeast))
           dn == S16(be_read16(points[i + 1].deltanorth))
           wpt == [east |-> ae + de,
                   north |-> an + dn,
                   depth |-> NoDepth,
                   time |-> IF i = n - 2 /\ time # 0 THEN time ELSE NoTime]
       IN  TrkLoopOld(points, i + 1, n, time, ae + de, an + dn, Append(acc, wpt))

\* namebuf: the 20 bytes at file_len - TRK_NAME_LEN
humminbird_read_track_old(th, body, namebuf, zero_ok, overrun) ==
  LET n == be_read16(th.num_points)
  IN  IF n > max_points_old THEN [outcome |-> "fatal", trk |-> <<>>]
      ELSE IF gbfread_fails(Len(body), n - 1, zero_ok)
      THEN [outcome |-> "fatal", trk |-> <<>>]
      ELSE IF n = 0 /\ overrun = "crash" THEN [outcome |-> "crash", trk |-> <<>>]
      ELSE [outcome |-> "ok",
            trk |-> <<[rte_name |-> namebuf,
                       rte_num |-> be_read16(th.trk_num),
                       wpts |-> TrkLoopOld(TrkPointsArray(body, n), 0, n,
                                           be_read32(th.time),
                                           be_read32(th.start_east),
                                           be_read32(th.start_north),
                                           <<FirstWpt(th)>>)]>>]


(***************************************************************************)
(* HumminbirdFormat: wpt_to_id, humminbird_write_waypoint(_wrapper),       *)
(* humminbird_rte_head, humminbird_write_rtept, humminbird_rte_tail.       *)
(*                                                                         *)
(* A waypoint to write has its latitude and longitude in units of 1e-10    *)
(* degree (lat, lon) next to the east and north they project to.           *)
(***************************************************************************)
Null == <<>>

\* QString::arg(x, 0, 'f', 9): x to nine decimals, to the nearest
Fixed9(x) == (x + 5) \div 10

wpt_to_id(wpt) == <<wpt.shortname, Fixed9(wpt.latitude), Fixed9(wpt.longitude)>>

\* the short-name service, MakeShort::mkshort
mkshort(name) == <<"short", name>>

(***************************************************************************)
(* The icon of a waypoint record.  A QString is the sequence of its        *)
(* characters' codes; icon_descr is Null (isNull()) or <<string>>.         *)
(***************************************************************************)
\* Qt::CaseInsensitive on the letters A..Z
ToLower(c) == IF 65 <= c /\ c <= 90 THEN c + 32 ELSE c
Fold(str) == [i \in 1..Len(str) |-> ToLower(str[i])]

\* !a.compare(b, Qt::CaseInsensitive)
CompareCI(a, b) == Fold(a) = Fold(b)

\* a.contains(b, Qt::CaseInsensitive)
ContainsCI(a, b) ==
  \E i \in 0..(Len(a) - Len(b)) : SubSeq(Fold(a), i + 1, i + Len(b)) = Fold(b)

\* the icon table, in the order of the file's icon bytes: "B", "Ab", "a"
humminbird_icons == <<(<<66>>), (<<65, 98>>), (<<97>>)>>
num_icons == Len(humminbird_icons)

RECURSIVE ExactLoop(_, _)
\* the first loop from i on: hum.icon after it
ExactLoop(descr, i) ==
  IF i >= num_icons THEN 255
  ELSE IF CompareCI(descr, humminbird_icons[i + 1]) THEN i
  ELSE ExactLoop(descr, i + 1)

RECURSIVE ContainsLoop(_, _, _)
\* the second loop from i on, entered with hum.icon = icon
ContainsLoop(descr, i, icon) ==
  IF i >= num_icons THEN icon
  ELSE IF ContainsCI(descr, humminbird_icons[i + 1]) THEN i
  ELSE ContainsLoop(descr, i + 1, icon)

\* hum.icon after the second loop, entered when the first one found nothing
SubstrIcon_bad(descr) == ContainsLoop(descr, 0, 255)
SubstrIcon(descr) == ContainsLoop(descr, 0, 0)

\* hum.icon as humminbird_write_waypoint writes it
IconOf(icon_descr) ==
  IF icon_descr = Null THEN 255
  ELSE IF ExactLoop(icon_descr[1], 0) # 255 THEN ExactLoop(icon_descr[1], 0)
  ELSE SubstrIcon(icon_descr[1])

\* the record humminbird_write_waypoint writes for wpt as number num; of is
\* not in the file: it names the waypoint the record was written for
WptRecordOut(wpt, num) ==
  [magic |-> WPT_MAGIC,
   num |-> be_write16(num),
   zero |-> 0,
   status |-> 1,
   icon |-> IconOf(wpt.icon_descr),
   time |-> be_write32(wpt.time),
   depth |-> be_write16(IF wpt.depth = NoDepth THEN 0 ELSE wpt.depth),
   east |-> be_write32(wpt.east),
   north |-> be_write32(wpt.north),
   name |-> mkshort(wpt.shortname),
   of |-> wpt_to_id(wpt)]

\* humminbird_write_waypoint_wrapper: <<hash, waypoint_num, fout>> after it
humminbird_write_waypoint_wrapper_bad(wpt, hash, num, out) ==
  <<HashPut(hash, wpt_to_id(wpt), num), num + 1, Append(out, WptRecordOut(wpt, num))>>
humminbird_write_waypoint_wrapper(wpt, hash, num, out) ==
  IF wpt_to_id(wpt) \notin DOMAIN hash
  THEN <<HashPut(hash, wpt_to_id(wpt), num), num + 1,
         Append(out, WptRecordOut(wpt, num))>>
  ELSE <<hash, num, out>>

\* new humminbird_rte_t()
NewRte == [count |-> 0, points |-> [i \in 1..MAX_RTE_POINTS |-> 0], of |-> <<>>]

\* the record after humminbird_write_rtept has stored number num for id
RteAdd(rte, id, num) ==
  [count |-> rte.count + 1,
   points |-> [rte.points EXCEPT ![rte.count + 1] = U16(num)],
   of |-> Append(rte.of, id)]

\* humminbird_write_rtept with a route record open: whether it ends in
\* fatal(), and the record after it.  of is not in the record: the ids of
\* its points.
humminbird_write_rtept_bad(rte, wpt, hash) ==
  IF wpt_to_id(wpt) \notin DOMAIN hash THEN [fatal |-> FALSE, rte |-> rte]
  ELSE IF rte.count < MAX_RTE_POINTS
  THEN [fatal |-> FALSE, rte |-> RteAdd(rte, wpt_to_id(wpt), hash[wpt_to_id(wpt)])]
  ELSE [fatal |-> FALSE, rte |-> rte]
humminbird_write_rtept(rte, wpt, hash) ==
  IF wpt_to_id(wpt) \notin DOMAIN hash THEN [fatal |-> FALSE, rte |-> rte]
  ELSE IF rte.count < MAX_RTE_POINTS
  THEN [fatal |-> FALSE, rte |-> RteAdd(rte, wpt_to_id(wpt), hash[wpt_to_id(wpt)])]
  ELSE [fatal |-> TRUE, rte |-> rte]

\* the record humminbird_rte_tail writes for the built record rte
RteRecordOut(rte, num, name) ==
  [magic |-> RTE_MAGIC,
   num |-> be_write16(num),
   count |-> rte.count,
   name |-> mkshort(name),
   points |-> [i \in 1..MAX_RTE_POINTS |->
                 IF i <= rte.count THEN be_write16(rte.points[i]) ELSE <<0, 0>>],
   of |-> rte.of]

(***************************************************************************)
(* HumminbirdFormat::write: waypt_disp_all and route_disp_all with the     *)
(* wrapper, then route_disp_all with head, tail and write_rtept.  wr_pc is *)
(* <<"waypts", 0, 0>>, <<"scan", r, p>> (the wrapper is due for point p of *)
(* route r), <<"head", r, 0>>, <<"pts", r, p>>, <<"tail", r, 0>>,          *)
(* <<"done", 0, 0>> or <<"fatal", r, p>>.                                  *)
(***************************************************************************)
RECURSIVE ScanFrom(_, _)
\* the first route from r on that has a point: the place the scan goes on
ScanFrom(routes, r) ==
  IF r > Len(routes) THEN <<"head", 1, 0>>
  ELSE IF Len(routes[r].wpts) > 0 THEN <<"scan", r, 1>>
  ELSE ScanFrom(routes, r + 1)

\* the callback after the one of route r: the next route's head, or the end
HeadFrom(routes, r) == IF r > Len(routes) THEN <<"done", 0, 0>> ELSE <<"head", r, 0>>

\* the first pass of write() finds no route (an empty list): the second
\* pass finds none either
AfterScan(routes, pos) == IF pos[1] = "head" THEN HeadFrom(routes, 1) ELSE pos

WrWaypoint(wpts) ==
  /\ wr_pc[1] = "waypts"
  /\ Len(in_wpts) < MaxWpts
  /\ \E wpt \in wpts :
       LET r == humminbird_write_waypoint_wrapper(wpt, wpt_id_to_wpt_num_hash, waypoint_num, fout)
       IN  /\ in_wpts' = Append(in_wpts, wpt)
           /\ wpt_id_to_wpt_num_hash' = r[1]
           /\ waypoint_num' = r[2]
           /\ fout' = r[3]
  /\ UNCHANGED <<wr_pc, in_routes, rte_num_, humrte, wr_warnings>>

\* waypt_disp_all returns
WrWaypointsEnd ==
  /\ wr_pc[1] = "waypts"
  /\ wr_pc' = AfterScan(in_routes, ScanFrom(in_routes, 1))
  /\ UNCHANGED <<in_wpts, in_routes, fout, wpt_id_to_wpt_num_hash, waypoint_num,
                 rte_num_, humrte, wr_warnings>>

\* route_disp_all(nullptr, nullptr, wrapper): the wrapper on a route's point
WrScan ==
  /\ wr_pc[1] = "scan"
  /\ LET rte == in_routes[wr_pc[2]]
         r == humminbird_write_waypoint_wrapper(rte.wpts[wr_pc[3]], wpt_id_to_wpt_num_hash,
                                   waypoint_num, fout)
     IN  /\ wpt_id_to_wpt_num_hash' = r[1]
         /\ waypoint_num' = r[2]
         /\ fout' = r[3]
         /\ wr_pc' = IF wr_pc[3] < Len(rte.wpts)
                     THEN <<"scan", wr_pc[2], wr_pc[3] + 1>>
                     ELSE AfterScan(in_routes, ScanFrom(in_routes, wr_pc[2] + 1))
  /\ UNCHANGED <<in_wpts, in_routes, rte_num_, humrte, wr_warnings>>

\* humminbird_rte_head
WrRteHead ==
  /\ wr_pc[1] = "head"
  /\ LET rte == in_routes[wr_pc[2]]
     IN  /\ humrte' = IF Len(rte.wpts) > 0 THEN <<NewRte>> ELSE Null
         /\ wr_pc' = IF Len(rte.wpts) > 0 THEN <<"pts", wr_pc[2], 1>>
                     ELSE <<"tail", wr_pc[2], 0>>
  /\ UNCHANGED <<in_wpts, in_routes, fout, wpt_id_to_wpt_num_hash, waypoint_num,
                 rte_num_, wr_warnings>>

\* the warning() calls of humminbird_write_rtept
RteptWarnings(rte, wpt, hash) ==
  IF wpt_to_id(wpt) \notin DOMAIN hash THEN 1
  ELSE IF rte.count < MAX_RTE_POINTS THEN 0
  ELSE 1

\* humminbird_write_rtept
WrRtept ==
  /\ wr_pc[1] = "pts"
  /\ LET rte == in_routes[wr_pc[2]]
         wpt == rte.wpts[wr_pc[3]]
         r == IF humrte = Null THEN [fatal |-> FALSE, rte |-> Null]
              ELSE humminbird_write_rtept(humrte[1], wpt, wpt_id_to_wpt_num_hash)
     IN  /\ wr_warnings' =
               IF humrte = Null THEN wr_warnings
               ELSE wr_warnings
                      + RteptWarnings(humrte[1], wpt, wpt_id_to_wpt_num_hash)
         /\ humrte' = IF humrte = Null THEN Null ELSE <<r.rte>>
         /\ wr_pc' = IF r.fatal THEN <<"fatal", wr_pc[2], wr_pc[3]>>
                     ELSE IF wr_pc[3] < Len(rte.wpts)
                     THEN <<"pts", wr_pc[2], wr_pc[3] + 1>>
                     ELSE <<"tail", wr_pc[2], 0>>
  /\ UNCHANGED <<in_wpts, in_routes, fout, wpt_id_to_wpt_num_hash, waypoint_num,
                 rte_num_>>

\* humminbird_rte_tail
WrRteTail ==
  /\ wr_pc[1] = "tail"
  /\ LET written == humrte # Null /\ humrte[1].count > 0
     IN  /\ fout' = IF written
                    THEN Append(fout, RteRecordOut(humrte[1], rte_num_,
                                                   in_routes[wr_pc[2]].rte_name))
                    ELSE fout
         /\ rte_num_' = IF written THEN rte_num_ + 1 ELSE rte_num_
  /\ humrte' = Null
  /\ wr_pc' = HeadFrom(in_routes, wr_pc[2] + 1)
  /\ UNCHANGED <<in_wpts, in_routes, wpt_id_to_wpt_num_hash, waypoint_num,
                 wr_warnings>>

\* the waypoints and routes write() is given
WrWpt(name, lat) ==
  [shortname |-> name, latitude |-> lat, longitude |-> 0, east |-> 0,
   north |-> lat \div 1000, depth |-> NoDepth, time |-> 0, icon_descr |-> Null]

\* A and A4 lie 0.4e-9 degree apart: they have one id
WrWpts == {WrWpt("A", 0), WrWpt("A", 4), WrWpt("B", 0)}

WrRoute(n) ==
  [rte_name |-> "R",
   wpts |-> [i \in 1..n |-> CASE i % 3 = 1 -> WrWpt("A", 4)
                              [] i % 3 = 2 -> WrWpt("B", 0)
                              [] OTHER -> WrWpt("A", 0)]]

\* no point, two, as many as a record holds, and one more
WrRoutes == {WrRoute(n) : n \in {0, 2, MAX_RTE_POINTS, MAX_RTE_POINTS + 1}}

\* icon descriptions: none, "", "a", "A", "b", "B", "c", "ab", "aB", "ba",
\* "aa", "ca", "cc", "cAb"
IconDescrs ==
  {Null} \cup
  {<<str>> : str \in {<<>>, <<97>>, <<65>>, <<98>>, <<66>>, <<99>>, <<97, 98>>,
                       <<97, 66>>, <<98, 97>>, <<97, 97>>, <<99, 97>>, <<99, 99>>,
                       <<99, 65, 98>>}}

\* waypoints with these descriptions
IconWpts ==
  {[WrWpt(name, 0) EXCEPT !.icon_descr = d] : name \in {"A", "B"}, d \in IconDescrs}

\* humminbird_wr_init
WriterStart ==
  /\ wr_pc = <<"waypts", 0, 0>>
  /\ in_wpts = <<>>
  /\ fout = <<>>
  /\ wpt_id_to_wpt_num_hash = <<>>
  /\ waypoint_num = 0
  /\ rte_num_ = 0
  /\ humrte = Null
  /\ wr_warnings = 0

InitWrite ==
  /\ WriterStart
  /\ in_routes \in UNION {[1..n -> WrRoutes] : n \in 0..MaxRoutes}

\* the writer where a specification does not use it
WriterIdle == WriterStart /\ in_routes = <<>>


(***************************************************************************)
(* HumminbirdHTFormat: humminbird_track_head, humminbird_track_cb,         *)
(* humminbird_track_tail.  A waypoint of a track has the east and north it *)
(* projects to, its depth in centimetres or NoDepth, and its creation time *)
(* or NoTime.                                                              *)
(***************************************************************************)
\* new humminbird_trk_header_t(), with the name and number
\* humminbird_track_head stores; num_points and the bounding box are not
\* big-endian before humminbird_track_tail
NewTrkHead(name, num) ==
  [trk_num |-> be_write16(num), num_points |-> 0,
   time |-> be_write32(0),
   start_east |-> be_write32(0), start_north |-> be_write32(0),
   end_east |-> be_write32(0), end_north |-> be_write32(0),
   sw_east |-> 0, sw_north |-> 0, ne_east |-> 0, ne_north |-> 0,
   name |-> mkshort(name)]

\* new humminbird_trk_point_t[max_points]()
NewTrkPoints == [i \in 1..max_points |-> ZeroPoint]

\* static_cast<int16_t>(east - last_east)
TrkDelta_bad(east, last) == S16(U16(east))
TrkDelta(east, last) == S16(U16(east - last))

\* the header after humminbird_track_cb on wpt
TrkHeadCb(th, wpt) ==
  IF th.num_points = 0
  THEN [th EXCEPT !.start_east = be_write32(wpt.east),
                  !.start_north = be_write32(wpt.north),
                  !.sw_east = wpt.east, !.ne_east = wpt.east,
                  !.sw_north = wpt.north, !.ne_north = wpt.north,
                  !.num_points = 1]
  ELSE [th EXCEPT !.ne_east = Max(th.ne_east, wpt.east),
                  !.sw_east = Min(th.sw_east, wpt.east),
                  !.ne_north = Max(th.ne_north, wpt.north),
                  !.sw_north = Min(th.sw_north, wpt.north),
                  !.num_points = U16(th.num_points + 1)]

\* trk_points[j] as humminbird_track_cb stores it
TrkPointCb(wpt, least, lnorth) ==
  [deltaeast |-> be_write16(TrkDelta(wpt.east, least)),
   deltanorth |-> be_write16(TrkDelta(wpt.north, lnorth)),
   depth |-> be_write16(IF wpt.depth = NoDepth THEN 0 ELSE wpt.depth)]

\* the header humminbird_track_tail writes
TrkHeadTail(th, least, lnorth, ltime) ==
  [th EXCEPT !.end_east = be_write32(least),
             !.end_north = be_write32(lnorth),
             !.time = be_write32(ltime),
             !.sw_east = be_write32(th.sw_east),
             !.ne_east = be_write32(th.ne_east),
             !.sw_north = be_write32(th.sw_north),
             !.ne_north = be_write32(th.ne_north),
             !.num_points = be_write16(th.num_points)]

\* humminbird_track_head: the track has a point or has none
TkHead ==
  /\ tk_pc = "start"
  /\ \E empty \in BOOLEAN :
       /\ trk_head' = IF empty THEN Null ELSE <<NewTrkHead("T", 1)>>
       /\ trk_points' = IF empty THEN Null ELSE NewTrkPoints
       /\ tk_pc' = IF empty THEN "tail" ELSE "cb"
  /\ last_time' = 0
  /\ UNCHANGED <<in_trk, last_east, last_north, tk_overrun, tk_fout>>

\* humminbird_track_cb.  With max_points + 1 points stored, j is past the
\* end of trk_points: the store does not reach the array, and the run goes
\* on or ends there.
TkCb(wpts, maxlen) ==
  /\ tk_pc = "cb"
  /\ Len(in_trk) < maxlen
  /\ \E wpt \in wpts :
       LET th == trk_head[1]
           j == th.num_points - 1
       IN  /\ in_trk' = Append(in_trk, wpt)
           /\ last_time' = IF wpt.time # NoTime THEN wpt.time ELSE last_time
           /\ trk_head' = <<TrkHeadCb(th, wpt)>>
           /\ trk_points' =
                IF th.num_points > 0 /\ j < max_points
                THEN [trk_points EXCEPT ![j + 1] = TrkPointCb(wpt, last_east, last_north)]
                ELSE trk_points
           /\ last_east' = wpt.east
           /\ last_north' = wpt.north
           /\ IF j >= max_points
              THEN /\ tk_overrun' = TRUE
                   /\ tk_pc' \in {"cb", "crash"}
              ELSE UNCHANGED <<tk_overrun, tk_pc>>
  /\ UNCHANGED tk_fout

\* humminbird_track_tail
TkTail ==
  /\ tk_pc \in {"cb", "tail"}
  /\ tk_pc = "cb" => Len(in_trk) > 0
  /\ tk_fout' =
       IF trk_head = Null THEN tk_fout
       ELSE Append(tk_fout,
                   [magic |-> TRK_MAGIC,
                    th |-> TrkHeadTail(trk_head[1], last_east, last_north, last_time),
                    body |-> trk_points,
                    pad |-> <<0, 0>>])
  /\ trk_head' = Null
  /\ trk_points' = Null
  /\ tk_pc' = "written"
  /\ UNCHANGED <<in_trk, last_east, last_north, last_time, tk_overrun>>

\* humminbird_wr_init of the track writer
TrackWriterStart ==
  /\ tk_pc = "start"
  /\ in_trk = <<>>
  /\ trk_head = Null
  /\ trk_points = Null
  /\ last_east = 0
  /\ last_north = 0
  /\ last_time = 0
  /\ tk_overrun = FALSE
  /\ tk_fout = <<>>

\* the track writer where a specification does not use it
TrackWriterIdle == TrackWriterStart

\* the waypoints a track is made of: steps of 32767 and -32768 east, then
\* north, and a step no int16 holds
TrkWpt(east, north, depth, time) ==
  [east |-> east, north |-> north, depth |-> depth, time |-> time]

TrkWpts ==
  {TrkWpt(0, 0, NoDepth, NoTime), TrkWpt(32767, 0, 150, 1000),
   TrkWpt(-1, 32767, NoDepth, 2000), TrkWpt(-1, -1, 70000, NoTime),
   TrkWpt(40000, 0, 1, NoTime)}

\* one point more than trk_points and the header's first point hold
MaxTrkLen == max_points + 2

(***************************************************************************)
(* The reader's input: the records a file may hold.                        *)
(***************************************************************************)
Statuses == {0, 1, 2, 3, 4, 16, 17, 63}

WptRecord(num, status, name, depth, east, north) ==
  [num |-> be_write16(num), status |-> status, depth |-> be_write16(depth),
   time |-> be_write32(1000), east |-> be_write32(east),
   north |-> be_write32(north), name |-> name]

WptA(num, status) == WptRecord(num, status, "A", 0, 100, 200)
WptB(num, status) == WptRecord(num, status, "B", 1234, -100, 40000)

\* every status, and kept records that share a number or differ in it
WptRecords == {WptA(5, s) : s \in Statuses} \cup {WptB(5, 1), WptA(7, 2)}

UnknownMagics == {0, WPT_MAGIC + 1}
Magics == {WPT_MAGIC, WPT_MAGIC2, RTE_MAGIC, TRK_MAGIC, TRK_MAGIC2} \cup UnknownMagics

\* every record after WPT_MAGIC, two of them after another signature
WptInputs ==
  {in \in Magics \X WptRecords : in[1] = WPT_MAGIC \/ in[2] \in {WptA(5, 1), WptA(5, 0)}}

\* a route record whose points array starts with listed and goes on with 0
RteRecord(count, listed) ==
  [count |-> count % 256, name |-> "R",
   points |-> [i \in 1..MAX_RTE_POINTS |->
                 IF i <= Len(listed) THEN be_write16(listed[i]) ELSE <<0, 0>>]]

RefNums == {5, 7, 99}
RteLists == {<<5, 99, 7>>, <<99, 99, 99>>, <<7, 5, 5>>}
\* the count byte: -128, -1, 0, and 1, 2, 3, 50, 51, 127; and a record of
\* count 51 whose 50 slots all hold 5
RteRecords ==
  {RteRecord(c, <<5, 99, 7>>) : c \in {-128, -1, 0}} \cup
  {RteRecord(MAX_RTE_POINTS + 1, [i \in 1..MAX_RTE_POINTS |-> 5])} \cup
  {RteRecord(c, l) : c \in {1, 2, 3, MAX_RTE_POINTS, MAX_RTE_POINTS + 1, 127},
                     l \in RteLists}

\* a track header and the points a file holds after it
TrkHeader(num_points, time, east, north) ==
  [trk_num |-> be_write16(1), num_points |-> be_write16(num_points),
   time |-> be_write32(time),
   start_east |-> be_write32(east), start_north |-> be_write32(north),
   end_east |-> be_write32(east), end_north |-> be_write32(north),
   sw_east |-> be_write32(east), sw_north |-> be_write32(north),
   ne_east |-> be_write32(east), ne_north |-> be_write32(north),
   name |-> "T"]

TrkPoint(de, dn, depth) ==
  [deltaeast |-> be_write16(de), deltanorth |-> be_write16(dn),
   depth |-> be_write16(depth)]

TrkCounts == {0, 1, 2, max_points, max_points + 1, max_points + 2}

TrkHeaders == {TrkHeader(c, 1000, 100, 200) : c \in TrkCounts}
\* an empty file remainder, or more points than any header counts
TrkBodies == {<<>>, [i \in 1..(max_points + 2) |-> TrkPoint(i, -i, 150)]}

\* the point entries a file holds after a track header: deltas at the ends
\* of the int16 range
RawPoints ==
  {TrkPoint(32767, 32767, 0), TrkPoint(-32768, -32768, 150),
   TrkPoint(32767, 1, 1), TrkPoint(1, -32768, 65535)}
RawBodies == UNION {[1..n -> RawPoints] : n \in {1, max_points}}
RawHeaders == {TrkHeader(c, t, 100, 200) : c \in 0..(max_points + 2), t \in {0, 1000}}

(***************************************************************************)
(* humminbird_read: one action for each case of the switch and one for the *)
(* end of the file.  fits bounds the number of records read.               *)
(***************************************************************************)
\* the switch on the signature: the codec of each case, "none" for default
Dispatch_bad(magic) ==
  CASE magic \in {WPT_MAGIC, WPT_MAGIC2, WPT_MAGIC + 1} -> "wpt"
    [] magic = RTE_MAGIC -> "rte"
    [] magic = TRK_MAGIC -> "trk"
    [] magic = TRK_MAGIC2 -> "trk_old"
    [] OTHER -> "none"
Dispatch(magic) ==
  CASE magic \in {WPT_MAGIC, WPT_MAGIC2} -> "wpt"
    [] magic = RTE_MAGIC -> "rte"
    [] magic = TRK_MAGIC -> "trk"
    [] magic = TRK_MAGIC2 -> "trk_old"
    [] OTHER -> "none"

Cur(magic, codec, rec) == [magic |-> magic, codec |-> codec, rec |-> rec]

\* rec = <<>>: gbfread found the end of the file
Truncated(magic, codec) ==
  /\ nread' = nread + 1
  /\ cur' = Cur(magic, codec, <<>>)
  /\ rd_pc' = "fatal"
  /\ UNCHANGED <<waypt_list, wpt_num_to_wpt_hash, route_list, track_list,
                 warnings>>

RdEof ==
  /\ rd_pc = "reading"
  /\ rd_pc' = "done"
  /\ UNCHANGED <<waypt_list, wpt_num_to_wpt_hash, route_list, track_list,
                 warnings, nread, cur>>

RdWpt(inputs) ==
  /\ rd_pc = "reading"
  /\ \/ \E in \in inputs :
          LET r == humminbird_read_wpt(in[2], nread + 1, waypt_list,
                                       wpt_num_to_wpt_hash)
          IN  /\ Dispatch(in[1]) = "wpt"
              /\ nread' = nread + 1
              /\ cur' = Cur(in[1], "wpt", in[2])
              /\ waypt_list' = r.waypts
              /\ wpt_num_to_wpt_hash' = r.hash
              /\ UNCHANGED <<rd_pc, route_list, track_list, warnings>>
     \/ \E magic \in Magics : Dispatch(magic) = "wpt" /\ Truncated(magic, "wpt")

\* the loop's stores past the points array may corrupt the stack frame
RteOutcomes(hrte) ==
  IF S8(hrte.count) > MAX_RTE_POINTS THEN {"reading", "crash"} ELSE {"reading"}

RteGarbage(hrte) ==
  IF S8(hrte.count) > MAX_RTE_POINTS THEN [1..MaxGarbage -> RefNums] ELSE {<<>>}

RdRoute(records) ==
  /\ rd_pc = "reading"
  /\ \/ \E hrte \in records :
          \E garbage \in RteGarbage(hrte), outcome \in RteOutcomes(hrte) :
            /\ Dispatch(RTE_MAGIC) = "rte"
            /\ nread' = nread + 1
            /\ cur' = Cur(RTE_MAGIC, "rte", hrte)
            /\ route_list' = humminbird_read_route(hrte, nread + 1, route_list,
                                                   wpt_num_to_wpt_hash, garbage)
            /\ warnings' = warnings + RteWarnings(hrte, wpt_num_to_wpt_hash)
            /\ rd_pc' = outcome
            /\ UNCHANGED <<waypt_list, wpt_num_to_wpt_hash, track_list>>
     \/ Truncated(RTE_MAGIC, "rte")

\* what the decoder's result makes of the reader: it returns after a track
TrackDone_bad(magic, codec, rec, r) ==
  /\ Dispatch(magic) = codec
  /\ nread' = nread + 1
  /\ cur' = Cur(magic, codec, rec)
  /\ track_list' = track_list \o r.trk
  /\ rd_pc' = IF r.outcome = "ok" THEN "reading" ELSE r.outcome
  /\ UNCHANGED <<waypt_list, wpt_num_to_wpt_hash, route_list, warnings>>
TrackDone(magic, codec, rec, r) ==
  /\ Dispatch(magic) = codec
  /\ nread' = nread + 1
  /\ cur' = Cur(magic, codec, rec)
  /\ track_list' = track_list \o r.trk
  /\ rd_pc' = IF r.outcome = "ok" THEN "done" ELSE r.outcome
  /\ UNCHANGED <<waypt_list, wpt_num_to_wpt_hash, route_list, warnings>>

\* the choices the source leaves open for a header of n points
ZeroOk(n) == IF n = 1 THEN BOOLEAN ELSE {TRUE}
Overrun(n) == IF n = 0 THEN {"ok", "crash"} ELSE {"ok"}

\* a whole header is there
RdTrackRecord(headers, bodies) ==
  \E th \in headers, body \in bodies :
    \E zero_ok \in ZeroOk(TrkCount(th)), overrun \in Overrun(TrkCount(th)) :
      TrackDone(TRK_MAGIC, "trk", [th |-> th, body |-> body],
                humminbird_read_track(th, body, zero_ok, overrun))

RdTrack(headers, bodies) ==
  /\ rd_pc = "reading"
  /\ \/ RdTrackRecord(headers, bodies)
     \/ Truncated(TRK_MAGIC, "trk")

RdTrackOld(headers, bodies) ==
  /\ rd_pc = "reading"
  /\ \/ \E th \in headers, body \in bodies :
          \E zero_ok \in ZeroOk(be_read16(th.num_points)),
             overrun \in Overrun(be_read16(th.num_points)) :
            TrackDone(TRK_MAGIC2, "trk_old", [th |-> th, body |-> body],
                      humminbird_read_track_old(th, body, "T", zero_ok, overrun))
     \/ Truncated(TRK_MAGIC2, "trk_old")

RdUnknown ==
  /\ rd_pc = "reading"
  /\ \E magic \in Magics :
       /\ Dispatch(magic) = "none"
       /\ nread' = nread + 1
       /\ cur' = Cur(magic, "none", <<>>)
  /\ rd_pc' = "fatal"
  /\ UNCHANGED <<waypt_list, wpt_num_to_wpt_hash, route_list, track_list,
                 warnings>>

\* humminbird_rd_init
InitRead ==
  /\ rd_pc = "reading"
  /\ waypt_list = <<>>
  /\ wpt_num_to_wpt_hash = <<>>
  /\ route_list = <<>>
  /\ track_list = <<>>
  /\ warnings = 0
  /\ nread = 0
  /\ cur = Cur(0, "none", <<>>)

ReadEof == RdEof /\ UNCHANGED <<wrvars, tkvars>>
ReadWpt == nread < MaxRecords /\ RdWpt(WptInputs) /\ UNCHANGED <<wrvars, tkvars>>
ReadRoute == nread < MaxRecords /\ RdRoute(RteRecords) /\ UNCHANGED <<wrvars, tkvars>>
ReadTrack == nread < MaxRecords /\ RdTrack(TrkHeaders, TrkBodies) /\ UNCHANGED <<wrvars, tkvars>>
ReadTrackOld == nread < MaxRecords /\ RdTrackOld(TrkHeaders, TrkBodies) /\ UNCHANGED <<wrvars, tkvars>>
ReadUnknown == nread < MaxRecords /\ RdUnknown /\ UNCHANGED <<wrvars, tkvars>>

NextRead ==
  \/ ReadEof
  \/ ReadWpt
  \/ ReadRoute
  \/ ReadTrack
  \/ ReadTrackOld
  \/ ReadUnknown

\* the reader starts; the writers are not used
InitSpecRead == InitRead /\ WriterIdle /\ TrackWriterIdle

SpecRead == InitSpecRead /\ [][NextRead]_vars

(***************************************************************************)
(* Claims about the reader (SpecRead).                                     *)
(***************************************************************************)
TrkMagics == {TRK_MAGIC, TRK_MAGIC2}
KnownMagics == {WPT_MAGIC, WPT_MAGIC2, RTE_MAGIC, TRK_MAGIC, TRK_MAGIC2}

\* a step that reads a signature
ReadStep == nread' = nread + 1

\* a step that reads a signature and the whole record of codec c after it
RecordStep(c) == ReadStep /\ cur'.codec = c /\ cur'.rec # <<>>

\* C1: once a track signature has been dispatched the reader has stopped:
\* it reads no further signature and adds no waypoint, route or track, and
\* if the decoder accepted the record, exactly that one track was added.
C1_TrackStopsReader ==
  [][cur.magic \in TrkMagics =>
       /\ rd_pc # "reading"
       /\ rd_pc = "done" => Len(track_list) = 1
       /\ UNCHANGED <<waypt_list, wpt_num_to_wpt_hash, route_list, track_list,
                      nread, cur>>]_vars

C1_Witness ==
  /\ cur.magic \in TrkMagics
  /\ rd_pc = "done"
  /\ nread = 3
  /\ Len(waypt_list) = 1
  /\ Len(track_list) = 1
  /\ Len(track_list[1].wpts) = 2

\* C2: a signature that is none of the five known ones ends in the fatal
\* abort, and no codec runs for it: nothing is added to the output.
C2_UnknownMagicFatal ==
  [][ReadStep /\ cur'.magic \notin KnownMagics =>
       /\ rd_pc' = "fatal"
       /\ cur'.codec = "none"
       /\ UNCHANGED <<waypt_list, wpt_num_to_wpt_hash, route_list, track_list>>]_vars

C2_Witness ==
  /\ cur.magic = WPT_MAGIC + 1
  /\ rd_pc = "fatal"
  /\ nread = 2
  /\ Len(waypt_list) = 1

\* C3 as stated: every waypoint of the output is in the index as well (and
\* every waypoint of the index is in the output).
C3_OutputIffIndexed ==
  Range(waypt_list) = {wpt_num_to_wpt_hash[n] : n \in DOMAIN wpt_num_to_wpt_hash}

\* C3, amended: a waypoint record of status 1, 2 or 3 appends its waypoint
\* to the output and makes it the index's entry for its number, replacing
\* an earlier entry for that number and no other; a record of any other
\* status leaves the output and the index as they are.
C3_StatusFilter ==
  [][RecordStep("wpt") =>
       LET w == cur'.rec
           num == be_read16(w.num)
       IN  IF w.status \in {1, 2, 3}
           THEN /\ Len(waypt_list') = Len(waypt_list) + 1
                /\ SubSeq(waypt_list', 1, Len(waypt_list)) = waypt_list
                /\ waypt_list'[Len(waypt_list')].shortname = w.name
                /\ waypt_list'[Len(waypt_list')] \notin Range(waypt_list)
                /\ DOMAIN wpt_num_to_wpt_hash' = DOMAIN wpt_num_to_wpt_hash \cup {num}
                /\ wpt_num_to_wpt_hash'[num] = waypt_list'[Len(waypt_list')]
                /\ \A n \in DOMAIN wpt_num_to_wpt_hash \ {num} :
                     wpt_num_to_wpt_hash'[n] = wpt_num_to_wpt_hash[n]
           ELSE UNCHANGED <<waypt_list, wpt_num_to_wpt_hash>>]_vars

\* a record was dropped after a kept record had replaced the index's entry
\* of an earlier kept record of the same number
C3_Witness ==
  /\ cur.codec = "wpt"
  /\ cur.rec # <<>>
  /\ cur.rec.status = 16
  /\ nread = 3
  /\ Len(waypt_list) = 2
  /\ DOMAIN wpt_num_to_wpt_hash = {5}
  /\ wpt_num_to_wpt_hash[5] = waypt_list[2]

\* the numbers the record lists, its first count slots, and those of them
\* that the index holds
Listed(hrte) ==
  [i \in 1..Min(S8(hrte.count), MAX_RTE_POINTS) |-> be_read16(hrte.points[i])]

Resolved(hrte) == SelectSeq(Listed(hrte), LAMBDA n : n \in DOMAIN wpt_num_to_wpt_hash)

\* wpts are copies of the index's waypoints of the numbers nums, in order
CopiesOf(wpts, nums) ==
  /\ Len(wpts) = Len(nums)
  /\ \A j \in 1..Len(nums) :
       /\ [wpts[j] EXCEPT !.addr = <<>>] =
            [wpt_num_to_wpt_hash[nums[j]] EXCEPT !.addr = <<>>]
       /\ wpts[j].addr # wpt_num_to_wpt_hash[nums[j]].addr

\* C4 as stated: the route decoded from a record has exactly the listed
\* numbers that the index holds, in order, each a copy of the index's
\* waypoint, and a route is added if and only if there is such a number.
C4_RouteIsResolvedList ==
  [][RecordStep("rte") =>
       IF Resolved(cur'.rec) = <<>>
       THEN route_list' = route_list
       ELSE /\ Len(route_list') = Len(route_list) + 1
            /\ SubSeq(route_list', 1, Len(route_list)) = route_list
            /\ CopiesOf(route_list'[Len(route_list')].wpts, Resolved(cur'.rec))]_vars

\* C5 as stated: the decoder records one warning for each listed number
\* that the index does not hold.
C5_WarningPerUnresolved ==
  [][RecordStep("rte") =>
       warnings' = warnings + (Len(Listed(cur'.rec)) - Len(Resolved(cur'.rec)))]_vars

\* C5, amended: the decoder records no warning and does not abort; a listed
\* number that the index does not hold yields no point, and every listed
\* number that the index holds still yields its point, in order.
C5_SilentDrop ==
  [][RecordStep("rte") =>
       /\ warnings' = warnings
       /\ rd_pc' # "fatal"
       /\ IF Resolved(cur'.rec) = <<>>
          THEN S8(cur'.rec.count) <= MAX_RTE_POINTS => route_list' = route_list
          ELSE /\ Len(route_list') = Len(route_list) + 1
               /\ Len(route_list'[Len(route_list')].wpts) >= Len(Resolved(cur'.rec))
               /\ CopiesOf(SubSeq(route_list'[Len(route_list')].wpts, 1,
                                  Len(Resolved(cur'.rec))),
                           Resolved(cur'.rec))]_vars

\* the record lists 5, 99, 7; the index holds 5 and 7 and not 99
C5_Witness ==
  /\ cur.codec = "rte"
  /\ cur.rec # <<>>
  /\ S8(cur.rec.count) = 3
  /\ Listed(cur.rec) = <<5, 99, 7>>
  /\ DOMAIN wpt_num_to_wpt_hash = {5, 7}
  /\ Len(route_list) = 1
  /\ Len(route_list[1].wpts) = 2
  /\ route_list[1].wpts[1].shortname = wpt_num_to_wpt_hash[5].shortname
  /\ warnings = 0
  /\ rd_pc = "reading"

(***************************************************************************)
(* HumminbirdFormat::write                                                 *)
(***************************************************************************)
\* the reader where a specification does not use it
ReaderIdle == InitRead

WriteWaypoint == WrWaypoint(WrWpts) /\ UNCHANGED <<rdvars, tkvars>>
WriteWaypointsEnd == WrWaypointsEnd /\ UNCHANGED <<rdvars, tkvars>>
WriteScan == WrScan /\ UNCHANGED <<rdvars, tkvars>>
WriteRteHead == WrRteHead /\ UNCHANGED <<rdvars, tkvars>>
WriteRtept == WrRtept /\ UNCHANGED <<rdvars, tkvars>>
WriteRteTail == WrRteTail /\ UNCHANGED <<rdvars, tkvars>>

NextWrite ==
  \/ WriteWaypoint
  \/ WriteWaypointsEnd
  \/ WriteScan
  \/ WriteRteHead
  \/ WriteRtept
  \/ WriteRteTail

\* the writer starts; the reader and the track writer are not used
InitSpecWrite == InitWrite /\ ReaderIdle /\ TrackWriterIdle

SpecWrite == InitSpecWrite /\ [][NextWrite]_vars

(***************************************************************************)
(* HumminbirdFormat::write of waypoints that have icon descriptions, there *)
(* being no route                                                          *)
(***************************************************************************)
WriteIconWaypoint == WrWaypoint(IconWpts) /\ UNCHANGED <<rdvars, tkvars>>
WriteIconWaypointsEnd == WrWaypointsEnd /\ UNCHANGED <<rdvars, tkvars>>

NextIcon ==
  \/ WriteIconWaypoint
  \/ WriteIconWaypointsEnd

\* the writer starts, with an empty route list
InitSpecIcon == WriterIdle /\ ReaderIdle /\ TrackWriterIdle

SpecIcon == InitSpecIcon /\ [][NextIcon]_vars

(***************************************************************************)
(* HumminbirdHTFormat::write of one track, and humminbird_read of the file *)
(* it has written or of a file that holds one track record                 *)
(***************************************************************************)
TrackHead == TkHead /\ UNCHANGED <<rdvars, wrvars>>
TrackCb == TkCb(TrkWpts, MaxTrkLen) /\ UNCHANGED <<rdvars, wrvars>>
TrackTail == TkTail /\ UNCHANGED <<rdvars, wrvars>>

\* humminbird_read of the file written
TrackReadBack ==
  /\ tk_pc = "written"
  /\ rd_pc = "reading"
  /\ IF tk_fout = <<>> THEN RdEof
     ELSE RdTrackRecord({tk_fout[1].th}, {tk_fout[1].body})
  /\ tk_pc' = "read"
  /\ UNCHANGED <<in_trk, trk_head, trk_points, last_east, last_north, last_time,
                 tk_overrun, tk_fout>>
  /\ UNCHANGED wrvars

\* humminbird_read of a file that holds a track record
TrackReadRaw ==
  /\ tk_pc = "start"
  /\ rd_pc = "reading"
  /\ RdTrackRecord(RawHeaders, RawBodies)
  /\ tk_pc' = "read"
  /\ UNCHANGED <<in_trk, trk_head, trk_points, last_east, last_north, last_time,
                 tk_overrun, tk_fout>>
  /\ UNCHANGED wrvars

NextTrk ==
  \/ TrackHead
  \/ TrackCb
  \/ TrackTail
  \/ TrackReadBack
  \/ TrackReadRaw

\* the track writer and the reader start; the writer is not used
InitSpecTrk == InitRead /\ WriterIdle /\ TrackWriterStart

SpecTrk == InitSpecTrk /\ [][NextTrk]_vars

(***************************************************************************)
(* Properties of HumminbirdFormat::write                                   *)
(***************************************************************************)
WptRecsOut == SelectSeq(fout, LAMBDA r : r.magic = WPT_MAGIC)
RteRecsOut == SelectSeq(fout, LAMBDA r : r.magic = RTE_MAGIC)

\* the routes that have a point, in the order of the route list
RoutesWithPoints == SelectSeq(in_routes, LAMBDA r : Len(r.wpts) > 0)

IdsOf(wpts) == [i \in 1..Len(wpts) |-> wpt_to_id(wpts[i])]

\* C6: when the 51st point of a route is offered to humminbird_write_rtept,
\* every point of the route being in the waypoint index, the writer ends in
\* fatal() and writes nothing; no route record for a route of more than 50
\* points is ever in the output: the k-th route record written holds every
\* point of the k-th route that has points.
C6_FatalAt51st ==
  /\ [](\A k \in 1..Len(RteRecsOut) :
          /\ k <= Len(RoutesWithPoints)
          /\ RteRecsOut[k].count = Len(RoutesWithPoints[k].wpts)
          /\ RteRecsOut[k].of = IdsOf(RoutesWithPoints[k].wpts))
  /\ [][(/\ wr_pc[1] = "pts"
         /\ wr_pc[3] = MAX_RTE_POINTS + 1
         /\ \A i \in 1..Len(in_routes[wr_pc[2]].wpts) :
              wpt_to_id(in_routes[wr_pc[2]].wpts[i]) \in DOMAIN wpt_id_to_wpt_num_hash)
        => (wr_pc'[1] = "fatal" /\ fout' = fout)]_vars
  /\ [][wr_pc[1] = "fatal" => UNCHANGED vars]_vars

\* a route of 51 points has ended in fatal() at its 51st point, after an
\* earlier route was written
C6_Witness ==
  /\ wr_pc = <<"fatal", 2, MAX_RTE_POINTS + 1>>
  /\ Len(in_routes[2].wpts) = MAX_RTE_POINTS + 1
  /\ humrte # Null
  /\ humrte[1].count = MAX_RTE_POINTS
  /\ Len(RteRecsOut) = 1

\* the points of route r that the first pass over the routes has been through
Scanned(r) ==
  IF wr_pc[1] = "waypts" THEN 0
  ELSE IF wr_pc[1] # "scan" \/ r < wr_pc[2] THEN Len(in_routes[r].wpts)
  ELSE IF r = wr_pc[2] THEN wr_pc[3] - 1
  ELSE 0

\* the identities the wrapper has been called with so far
Offered ==
  {wpt_to_id(in_wpts[i]) : i \in 1..Len(in_wpts)}
    \cup UNION {{wpt_to_id(in_routes[r].wpts[i]) : i \in 1..Scanned(r)} :
                r \in 1..Len(in_routes)}

\* C7: every point number of a written route record is the number of a
\* waypoint record written earlier that has the identity (short name,
\* latitude, longitude) of the route point; every waypoint record precedes
\* every route record; every identity offered is written as a waypoint
\* record exactly once.
C7_TwoPhase ==
  /\ \A j \in 1..Len(fout) :
       fout[j].magic = RTE_MAGIC =>
         /\ \A k \in 1..Len(fout) : fout[k].magic = WPT_MAGIC => k < j
         /\ \E r \in 1..Len(in_routes) : fout[j].of = IdsOf(in_routes[r].wpts)
         /\ \A i \in 1..fout[j].count :
              \E k \in 1..(j - 1) :
                /\ fout[k].magic = WPT_MAGIC
                /\ fout[k].of = fout[j].of[i]
                /\ be_read16(fout[k].num) = be_read16(fout[j].points[i])
  /\ \A id \in Offered :
       Cardinality({k \in 1..Len(fout) :
                      fout[k].magic = WPT_MAGIC /\ fout[k].of = id}) = 1
  /\ \A k \in 1..Len(fout) : fout[k].magic = WPT_MAGIC => fout[k].of \in Offered

\* write() is through: the list held two waypoints of one identity, another
\* identity was met in a route only, and two waypoint records and the
\* route's record are written
C7_Witness ==
  /\ wr_pc[1] = "done"
  /\ Len(in_wpts) = 2
  /\ in_wpts[1] # in_wpts[2]
  /\ wpt_to_id(in_wpts[1]) = wpt_to_id(in_wpts[2])
  /\ Len(WptRecsOut) = 2
  /\ Len(RteRecsOut) = 1
  /\ RteRecsOut[1].count = 2

(***************************************************************************)
(* Properties of the track codec                                           *)
(***************************************************************************)
Abs(x) == IF x < 0 THEN -x ELSE x

\* humminbird_read has read one new-format track record and added its track
TrackDecoded == rd_pc = "done" /\ cur.codec = "trk" /\ Len(track_list) = 1

\* the track decoded
DecWpts == track_list[1].wpts

\* the differences of the coordinates xs are in the int16 range
InInt16(xs) == \A k \in 2..Len(xs) : xs[k] - xs[k - 1] \in -32768..32767

EastOf(wpts) == [k \in 1..Len(wpts) |-> wpts[k].east]
NorthOf(wpts) == [k \in 1..Len(wpts) |-> wpts[k].north]

\* point k is reached by a step of 32767 and left by a step of -32768
FreakAt(xs, k) ==
  /\ 2 <= k
  /\ k < Len(xs)
  /\ xs[k] - xs[k - 1] = 32767
  /\ xs[k + 1] - xs[k] = -32768

\* a track of 1..max_points points with all differences in the int16 range
\* has been written and the file read
RoundTripDone ==
  /\ tk_pc = "read"
  /\ Len(tk_fout) = 1
  /\ Len(in_trk) \in 1..max_points
  /\ InInt16(EastOf(in_trk))
  /\ InInt16(NorthOf(in_trk))

\* C8 as stated: the track read back has the east and north of every point
\* of the track written.
C8_RoundTripExact ==
  RoundTripDone =>
    /\ TrackDecoded
    /\ EastOf(DecWpts) = EastOf(in_trk)
    /\ NorthOf(DecWpts) = NorthOf(in_trk)

\* the coordinates read back for the coordinates xs of one axis
ReadBackOf(xs) ==
  [k \in 1..Len(xs) |-> IF FreakAt(xs, k) THEN xs[k] - 32768 ELSE xs[k]]

\* C8: the track read back has the east and north of every point of the
\* track written, but for a point reached by a difference of 32767 and left
\* by one of -32768 on an axis: that coordinate is read back 32768 lower.
\* The record of a one-point track asks the reader for no point entries: it
\* is read back as that point, or the reader ends in fatal().
C8_RoundTripButFreak ==
  RoundTripDone =>
    \/ /\ TrackDecoded
       /\ EastOf(DecWpts) = ReadBackOf(EastOf(in_trk))
       /\ NorthOf(DecWpts) = ReadBackOf(NorthOf(in_trk))
    \/ /\ Len(in_trk) = 1
       /\ rd_pc = "fatal"
       /\ track_list = <<>>

\* a track of three points, the second one 32767 east of the first and
\* 32768 east of the third, is read back with the second one 32768 too far
\* west and the others in place
C8_Witness ==
  /\ RoundTripDone
  /\ TrackDecoded
  /\ Len(in_trk) = 3
  /\ FreakAt(EastOf(in_trk), 2)
  /\ ~FreakAt(NorthOf(in_trk), 2)
  /\ DecWpts[2].east = in_trk[2].east - 32768
  /\ DecWpts[2].north = in_trk[2].north
  /\ DecWpts[1].east = in_trk[1].east
  /\ DecWpts[3].east = in_trk[3].east

\* the point array humminbird_read_track has read for the record in cur
CurPoints == TrkPointsArray(cur.rec.body, TrkCount(cur.rec.th))

DeltaEast(k) == S16(be_read16(CurPoints[k].deltaeast))
DeltaNorth(k) == S16(be_read16(CurPoints[k].deltanorth))

RECURSIVE NaiveEast(_)
\* the header's start plus the first k differences as the file holds them
NaiveEast(k) ==
  IF k = 0 THEN be_read32(cur.rec.th.start_east) ELSE NaiveEast(k - 1) + DeltaEast(k)

RECURSIVE NaiveNorth(_)
NaiveNorth(k) ==
  IF k = 0 THEN be_read32(cur.rec.th.start_north) ELSE NaiveNorth(k - 1) + DeltaNorth(k)

\* entries k and k+1 of the array hold 32767 and -32768
FreakEast(k) == k < Len(CurPoints) /\ DeltaEast(k) = 32767 /\ DeltaEast(k + 1) = -32768
FreakNorth(k) == k < Len(CurPoints) /\ DeltaNorth(k) = 32767 /\ DeltaNorth(k + 1) = -32768

\* the entries of the array that make a point
Emitted == 1..(Len(DecWpts) - 1)

\* C9 as stated: where entries i and i+1 hold 32767 and -32768, an
\* accumulated coordinate from point i on differs from the sum of the
\* differences the file holds by 1.
C9_FreakOffByOne ==
  TrackDecoded =>
    \A k \in Emitted :
      /\ FreakEast(k) =>
           \E m \in Emitted : m >= k /\ Abs(DecWpts[m + 1].east - NaiveEast(m)) = 1
      /\ FreakNorth(k) =>
           \E m \in Emitted : m >= k /\ Abs(DecWpts[m + 1].north - NaiveNorth(m)) = 1

\* C9: where entries i and i+1 hold 32767 and -32768 on an axis, the decoder
\* steps by -1 and by 0: the coordinate of point i is 32768 lower than the
\* sum of the differences the file holds, and every other coordinate is that
\* sum.
C9_FreakOffBy32768 ==
  TrackDecoded =>
    \A k \in Emitted :
      /\ DecWpts[k + 1].east = NaiveEast(k) - (IF FreakEast(k) THEN 32768 ELSE 0)
      /\ DecWpts[k + 1].north = NaiveNorth(k) - (IF FreakNorth(k) THEN 32768 ELSE 0)
      /\ FreakEast(k) =>
           /\ DecWpts[k + 1].east - DecWpts[k].east = -1
           /\ k + 1 \in Emitted
           /\ DecWpts[k + 2].east - DecWpts[k + 1].east = 0
      /\ FreakNorth(k) =>
           /\ DecWpts[k + 1].north - DecWpts[k].north = -1
           /\ k + 1 \in Emitted
           /\ DecWpts[k + 2].north - DecWpts[k + 1].north = 0

\* a record of three points whose two entries hold 32767 and -32768 east
\* and no such pair north has been decoded
C9_Witness ==
  /\ TrackDecoded
  /\ tk_fout = <<>>
  /\ Len(DecWpts) = 3
  /\ FreakEast(1)
  /\ ~FreakNorth(1)
  /\ DecWpts[2].east = NaiveEast(1) - 32768
  /\ DecWpts[3].east = NaiveEast(2)
  /\ DecWpts[3].north = NaiveNorth(2)

\* C10 as stated: the decoder adds one point less than the count of the
\* header, after the decrement of a maximal record's count.
C10_CountMinusOne ==
  TrackDecoded => Len(DecWpts) = TrkCount(cur.rec.th) - 1

\* C10: the decoder adds as many points as the header counts, after the
\* decrement of a maximal record's count: the header's start and one point
\* for each of the count - 1 entries read; for a count of 0 that it gets
\* through it adds the header's start.  The count humminbird_track_tail
\* writes is the number of points of the track.
C10_CountIsPoints ==
  /\ TrackDecoded => Len(DecWpts) = Max(TrkCount(cur.rec.th), 1)
  /\ Len(tk_fout) = 1 => be_read16(tk_fout[1].th.num_points) = Len(in_trk)

\* a record whose header counts max_points + 1 has been decoded to
\* max_points points
C10_Witness ==
  /\ TrackDecoded
  /\ be_read16(cur.rec.th.num_points) = max_points + 1
  /\ TrkCount(cur.rec.th) = max_points
  /\ Len(DecWpts) = max_points

\* every point decoded lies in the bounding box of the header th
InBox(th, wpts) ==
  \A k \in 1..Len(wpts) :
    /\ be_read32(th.sw_east) <= wpts[k].east
    /\ wpts[k].east <= be_read32(th.ne_east)
    /\ be_read32(th.sw_north) <= wpts[k].north
    /\ wpts[k].north <= be_read32(th.ne_north)

\* C11 as stated, for the records the encoder produces: every point decoded
\* from a record that humminbird_track_tail has written, no store having
\* gone past trk_points, lies in the bounding box of the record's header.
C11_DecodedInBox ==
  (TrackDecoded /\ Len(tk_fout) = 1 /\ ~tk_overrun) => InBox(cur.rec.th, DecWpts)

\* C12 as stated: a call of humminbird_track_cb that stores a point entry
\* stores it at an index j = num_points - 1 below max_points, and no store
\* goes past trk_points.
C12_StoreInBuffer ==
  [][(tk_pc = "cb" /\ in_trk' # in_trk /\ trk_head[1].num_points > 0)
       => (trk_head[1].num_points - 1 < max_points /\ ~tk_overrun')]_vars

(***************************************************************************)
(* Properties of the icon byte                                             *)
(***************************************************************************)
\* the 0-based indexes of the table entries that equal the description,
\* and of those it contains, case-insensitively
ExactMatches(descr) ==
  {i \in 0..(num_icons - 1) : CompareCI(descr, humminbird_icons[i + 1])}
SubstrMatches(descr) ==
  {i \in 0..(num_icons - 1) : ContainsCI(descr, humminbird_icons[i + 1])}

Least(set) == CHOOSE i \in set : \A j \in set : i <= j

\* the icon byte of the policy, with the byte none for a description that
\* no table entry matches; a waypoint without a description has no match
PolicyIcon(icon_descr, none) ==
  IF icon_descr = Null THEN 255
  ELSE IF ExactMatches(icon_descr[1]) # {} THEN Least(ExactMatches(icon_descr[1]))
  ELSE IF SubstrMatches(icon_descr[1]) # {} THEN Least(SubstrMatches(icon_descr[1]))
  ELSE none

\* a step that writes the record of the waypoint it takes from the list
WritesWaypoint == Len(in_wpts') = Len(in_wpts) + 1 /\ Len(fout') = Len(fout) + 1

\* C13 as stated: the icon byte written is the index of the first table
\* entry equal to the description, else of the first one contained in it,
\* else 255.
C13_IconOr255 ==
  [][WritesWaypoint =>
       fout'[Len(fout')].icon = PolicyIcon(in_wpts'[Len(in_wpts')].icon_descr, 255)]_vars

\* C13: the icon byte written is the index of the first table entry equal
\* to the description, else of the first one contained in it, else 0 for a
\* description that no entry matches; it is 255 for a waypoint that has no
\* description.
C13_IconOr0 ==
  [][WritesWaypoint =>
       fout'[Len(fout')].icon = PolicyIcon(in_wpts'[Len(in_wpts')].icon_descr, 0)]_vars

\* records are written for "cc", which no entry matches, with icon 0, and
\* for "cAb", which contains every entry and equals none, with icon 0 too
C13_Witness ==
  /\ Len(fout) = 2
  /\ Len(in_wpts) = 2
  /\ in_wpts[1].icon_descr = <<(<<99, 99>>)>>
  /\ ExactMatches(in_wpts[1].icon_descr[1]) = {}
  /\ SubstrMatches(in_wpts[1].icon_descr[1]) = {}
  /\ fout[1].icon = 0
  /\ in_wpts[2].icon_descr = <<(<<99, 65, 98>>)>>
  /\ ExactMatches(in_wpts[2].icon_descr[1]) = {}
  /\ SubstrMatches(in_wpts[2].icon_descr[1]) = {0, 1, 2}
  /\ fout[2].icon = 0

(***************************************************************************)
(* Properties of the route decoder's use of the points array               *)
(***************************************************************************)
\* the numbers of slots 0..49 of the record, as the file holds them
Slots(hrte) == {be_read16(hrte.points[i]) : i \in 1..MAX_RTE_POINTS}

\* C14 as stated: for every count byte the decoder touches only slots 0..49
\* of the points array, so that the read of a route record does not end in
\* a corrupted stack frame and every point of the route it adds has a
\* number that one of the 50 slots holds; the route has at most 50 points;
\* a count of 0 or less adds no route.
C14_RouteWithinArray ==
  [][RecordStep("rte") =>
       /\ rd_pc' # "crash"
       /\ S8(cur'.rec.count) <= 0 => route_list' = route_list
       /\ route_list' # route_list =>
            LET wpts == route_list'[Len(route_list')].wpts
            IN  /\ Len(wpts) <= MAX_RTE_POINTS
                /\ Len(wpts) <= Cardinality({i \in 1..MAX_RTE_POINTS :
                                               be_read16(cur'.rec.points[i])
                                                 \in DOMAIN wpt_num_to_wpt_hash})
                /\ \A j \in 1..Len(wpts) :
                     \E n \in Slots(cur'.rec) :
                       /\ n \in DOMAIN wpt_num_to_wpt_hash
                       /\ wpts[j].shortname = wpt_num_to_wpt_hash[n].shortname]_vars

=============================================================================
